---- MODULE Spec2Model ----
(***************************************************************************)
(* Model of stock_performance: the FastAPI service (server.py) with its    *)
(* prefetch middleware and view handlers, the command-line script          *)
(* (stock_performance.py), and the pure helpers both share (the period /   *)
(* interval validators and the buy/sell volume estimator).                 *)
(*                                                                         *)
(* Strings are sequences of lexemes: "1y" is <<"1y">>, "1y,2y" is          *)
(* <<"1y", ",", "2y">>, the empty string is <<>>, and string               *)
(* concatenation (f-strings, join) is \o.                                  *)
(* Floats are exact rationals plus the IEEE specials nan, inf and -inf;    *)
(* rounding is not modelled.                                               *)
(***************************************************************************)
EXTENDS Integers, Sequences, FiniteSets, TLC

VARIABLES
    pc, request, validated_periods, validated_interval, idx, data,
    fetch_log, state, response, next_called,
    val_in, val_out,
    calc_in, calc_out,
    cli_pc, argv, args, cli_periods, cli_interval, cli_idx, cli_log,
    main_reached, saved, stderr, exit_code

webVars  == <<pc, request, validated_periods, validated_interval, idx, data,
              fetch_log, state, response, next_called>>
valVars  == <<val_in, val_out>>
calcVars == <<calc_in, calc_out>>
cliVars  == <<cli_pc, argv, args, cli_periods, cli_interval, cli_idx, cli_log,
              main_reached, saved, stderr, exit_code>>
vars     == <<webVars, valVars, calcVars, cliVars>>

(***************************************************************************)
(* Bounds                                                                  *)
(***************************************************************************)
MaxRawLen == 3
MaxRows == 2
MaxStrLen == 2
MaxCalcRows == 2
MaxPrice == 3
MaxVolume == 2
MaxCliPeriods == 2

(***************************************************************************)
(* Strings and dictionaries                                                *)
(***************************************************************************)
SeqsUpTo(S, n) == UNION {[1..k -> S] : k \in 0..n}

EmptyDict == [k \in {} |-> <<>>]

DictSet(d, k, v) == [x \in (DOMAIN d) \cup {k} |-> IF x = k THEN v ELSE d[x]]

RECURSIVE Split(_)
Split(s) ==
    IF \A i \in 1..Len(s) : s[i] # ","
    THEN <<s>>
    ELSE LET i == CHOOSE j \in 1..Len(s) :
                     s[j] = "," /\ \A k \in 1..(j - 1) : s[k] # ","
         IN  <<SubSeq(s, 1, i - 1)>> \o Split(SubSeq(s, i + 1, Len(s)))

RECURSIVE Join(_, _)
Join(list, sep) ==
    IF Len(list) = 0 THEN <<>>
    ELSE IF Len(list) = 1 THEN list[1]
    ELSE list[1] \o sep \o Join(Tail(list), sep)

InList(x, list) == \E i \in 1..Len(list) : list[i] = x

Return(v) == [raised |-> FALSE, value |-> v, type |-> "", msg |-> <<>>]
Raise(t, m) == [raised |-> TRUE, value |-> <<>>, type |-> t, msg |-> m]

(***************************************************************************)
(* server.py: validators                                                   *)
(***************************************************************************)
valid_periods ==
    << <<"1d">>, <<"5d">>, <<"1mo">>, <<"3mo">>, <<"6mo">>, <<"1y">>,
       <<"2y">>, <<"5y">>, <<"10y">>, <<"ytd">>, <<"max">> >>

valid_intervals ==
    << <<"1m">>, <<"2m">>, <<"5m">>, <<"15m">>, <<"30m">>, <<"60m">>,
       <<"90m">>, <<"1h">>, <<"1d">>, <<"5d">>, <<"1wk">>, <<"1mo">>,
       <<"3mo">> >>

validate_period_mut(period) ==
    IF ~InList(period, SubSeq(valid_periods, 1, Len(valid_periods) - 1))
    THEN Raise("ValueError",
               <<"Invalid period: ">> \o period \o <<". Valid periods are: ">>
                   \o Join(valid_periods, <<", ">>))
    ELSE Return(period)

validate_period(period) ==
    IF ~InList(period, valid_periods)
    THEN Raise("ValueError",
               <<"Invalid period: ">> \o period \o <<". Valid periods are: ">>
                   \o Join(valid_periods, <<", ">>))
    ELSE Return(period)

validate_interval(interval) ==
    IF ~InList(interval, valid_intervals)
    THEN Raise("ValueError",
               <<"Invalid interval: ">> \o interval
                   \o <<". Valid intervals are: ">>
                   \o Join(valid_intervals, <<", ">>))
    ELSE Return(interval)

(***************************************************************************)
(* stock_performance.py: validators (the script's own copies)              *)
(***************************************************************************)
cli_valid_periods ==
    << <<"1d">>, <<"5d">>, <<"1mo">>, <<"3mo">>, <<"6mo">>, <<"1y">>,
       <<"2y">>, <<"5y">>, <<"10y">>, <<"ytd">>, <<"max">> >>

cli_valid_intervals ==
    << <<"1m">>, <<"2m">>, <<"5m">>, <<"15m">>, <<"30m">>, <<"60m">>,
       <<"90m">>, <<"1h">>, <<"1d">>, <<"5d">>, <<"1wk">>, <<"1mo">>,
       <<"3mo">> >>

cli_validate_period(period) ==
    IF ~InList(period, cli_valid_periods)
    THEN Raise("ValueError",
               <<"Invalid period: ">> \o period \o <<". Valid periods are: ">>
                   \o Join(cli_valid_periods, <<", ">>))
    ELSE Return(period)

cli_validate_interval(interval) ==
    IF ~InList(interval, cli_valid_intervals)
    THEN Raise("ValueError",
               <<"Invalid interval: ">> \o interval
                   \o <<". Valid intervals are: ">>
                   \o Join(cli_valid_intervals, <<", ">>))
    ELSE Return(interval)

(***************************************************************************)
(* Float arithmetic (pandas / numpy semantics for division by zero)        *)
(***************************************************************************)
Abs(x) == IF x < 0 THEN -x ELSE x

RECURSIVE GCD(_, _)
GCD(a, b) == IF b = 0 THEN a ELSE GCD(b, a % b)

NaN == [k |-> "nan", n |-> 0, d |-> 1]
Inf == [k |-> "inf", n |-> 0, d |-> 1]
NegInf == [k |-> "-inf", n |-> 0, d |-> 1]

\* the finite value n / d, d # 0, in lowest terms with a positive denominator
Fin(n, d) ==
    LET g == GCD(Abs(n), Abs(d))
        s == IF d < 0 THEN -1 ELSE 1
    IN  [k |-> "fin", n |-> (s * n) \div g, d |-> (s * d) \div g]

\* float division a / b of two finite integer-valued floats: x/0 is +-inf,
\* 0/0 is nan, and no exception is raised
FloatDiv(a, b) ==
    IF b # 0 THEN Fin(a, b)
    ELSE IF a = 0 THEN NaN
    ELSE IF a > 0 THEN Inf
    ELSE NegInf

FloatAdd(x, y) ==
    IF x.k = "nan" \/ y.k = "nan" THEN NaN
    ELSE IF x.k = "fin" /\ y.k = "fin" THEN Fin(x.n * y.d + y.n * x.d, x.d * y.d)
    ELSE IF x.k = "fin" THEN y
    ELSE IF y.k = "fin" THEN x
    ELSE IF x.k = y.k THEN x
    ELSE NaN

(***************************************************************************)
(* Column operations of a data frame (a sequence of rows)                  *)
(***************************************************************************)
Col(df, c) == [i \in 1..Len(df) |-> df[i][c]]
ColSub(a, b) == [i \in 1..Len(a) |-> a[i] - b[i]]
ColMul(a, b) == [i \in 1..Len(a) |-> a[i] * b[i]]
ColDiv(a, b) == [i \in 1..Len(a) |-> FloatDiv(a[i], b[i])]
ColDivScalar(a, c) == [i \in 1..Len(a) |-> FloatDiv(a[i], c)]
fillna(a, b) == [i \in 1..Len(a) |-> IF a[i].k = "nan" THEN b[i] ELSE a[i]]

(***************************************************************************)
(* server.py: buy/sell volume estimator                                    *)
(***************************************************************************)
calculate_buy_sell_volumes_mut(df) ==
    LET buy_volume == ColDiv(ColMul(Col(df, "Volume"),
                                    ColSub(Col(df, "High"), Col(df, "Close"))),
                             ColSub(Col(df, "High"), Col(df, "Low")))
        sell_volume == ColDiv(ColMul(Col(df, "Volume"),
                                     ColSub(Col(df, "High"), Col(df, "Close"))),
                              ColSub(Col(df, "High"), Col(df, "Low")))
    IN  <<fillna(buy_volume, ColDivScalar(Col(df, "Volume"), 2)),
          fillna(sell_volume, ColDivScalar(Col(df, "Volume"), 2))>>

calculate_buy_sell_volumes(df) ==
    LET buy_volume == ColDiv(ColMul(Col(df, "Volume"),
                                    ColSub(Col(df, "Close"), Col(df, "Low"))),
                             ColSub(Col(df, "High"), Col(df, "Low")))
        sell_volume == ColDiv(ColMul(Col(df, "Volume"),
                                     ColSub(Col(df, "High"), Col(df, "Close"))),
                              ColSub(Col(df, "High"), Col(df, "Low")))
    IN  <<fillna(buy_volume, ColDivScalar(Col(df, "Volume"), 2)),
          fillna(sell_volume, ColDivScalar(Col(df, "Volume"), 2))>>

(***************************************************************************)
(* stock_performance.py: buy/sell volume estimator (the script's copy)     *)
(***************************************************************************)
cli_calculate_buy_sell_volumes(df) ==
    LET buy_volume == ColDiv(ColMul(Col(df, "Volume"),
                                    ColSub(Col(df, "Close"), Col(df, "Low"))),
                             ColSub(Col(df, "High"), Col(df, "Low")))
        sell_volume == ColDiv(ColMul(Col(df, "Volume"),
                                     ColSub(Col(df, "High"), Col(df, "Close"))),
                              ColSub(Col(df, "High"), Col(df, "Low")))
    IN  <<fillna(buy_volume, ColDivScalar(Col(df, "Volume"), 2)),
          fillna(sell_volume, ColDivScalar(Col(df, "Volume"), 2))>>

(***************************************************************************)
(* The data provider (yfinance): what history() can hand back              *)
(***************************************************************************)
Timestamp(y, m, d) == [year |-> y, month |-> m, day |-> d, hour |-> 0]

\* index.strftime('%Y-%m-%d'): the date part of each timestamp
strftime(index) ==
    [i \in 1..Len(index) |-> <<index[i].year, index[i].month, index[i].day>>]

ProviderRows ==
    { [Date |-> Timestamp(2024, 1, 2), Open |-> 1, High |-> 3, Low |-> 1,
       Close |-> 2, Volume |-> 4],
      [Date |-> Timestamp(2024, 1, 3), Open |-> 2, High |-> 2, Low |-> 2,
       Close |-> 2, Volume |-> 2] }

ProviderSeries == SeqsUpTo(ProviderRows, MaxRows)

ProviderErrors ==
    { [type |-> "ValueError", msg |-> <<"Expecting value">>],
      [type |-> "Exception", msg |-> <<"Connection timed out">>] }

\* DataFrame.empty
Empty_mut(df) == FALSE

Empty(df) == Len(df) = 0

(***************************************************************************)
(* server.py: requests                                                     *)
(***************************************************************************)
Paths ==
    { <<"performance", "total_volume">>, <<"performance", "buy_sell_volume">>,
      <<"performance", "price">>, <<"docs">> }

RawPeriodLexemes == {"1y", "2y", "1yr", ","}
RawPeriods == SeqsUpTo(RawPeriodLexemes, MaxRawLen)
RawIntervals == { <<"1d">>, <<"2d">>, <<>> }
RawStocks == { <<"AAA">>, <<>> }

QueryParams ==
    { [k \in K |-> CASE k = "stock" -> s [] k = "periods" -> p
                     [] k = "interval" -> i] :
        K \in SUBSET {"stock", "periods", "interval"},
        s \in RawStocks, p \in RawPeriods, i \in RawIntervals }

\* query_params.get(key, default)
Get(q, key, default) == IF key \in DOMAIN q THEN q[key] ELSE default

\* request.url.path.startswith("/performance")
StartsWithPerformance(path) == Len(path) >= 1 /\ path[1] = "performance"

\* `not stock` for stock = query_params.get("stock"): None or ""
StockMissing_mut(q) == "stock" \notin DOMAIN q

StockMissing(q) == "stock" \notin DOMAIN q \/ Len(q["stock"]) = 0

JSONResponse(code, detail) == [status_code |-> code, content |-> [detail |-> detail]]

NoResponse == [status_code |-> 0, content |-> [detail |-> <<>>]]
NoRequest == [path |-> <<>>, query_params |-> EmptyDict]
NoState == EmptyDict

\* lines 54-58: split the periods, validate each period in list order, then
\* the interval; the first ValueError raised ends the evaluation
ParseAndValidate_mut(q) ==
    LET periods == Split(Get(q, "periods", <<"1y">>))
        interval == Get(q, "interval", <<"1d">>)
        results == [i \in 1..Len(periods) |-> validate_period(periods[i])]
        bad == {i \in 1..Len(periods) : results[i].raised}
        vi == validate_interval(interval)
    IN  IF vi.raised THEN vi
        ELSE IF bad # {} THEN results[CHOOSE i \in bad : \A j \in bad : i <= j]
        ELSE Return([periods |-> [i \in 1..Len(periods) |-> results[i].value],
                     interval |-> vi.value])

ParseAndValidate(q) ==
    LET periods == Split(Get(q, "periods", <<"1y">>))
        interval == Get(q, "interval", <<"1d">>)
        results == [i \in 1..Len(periods) |-> validate_period(periods[i])]
        bad == {i \in 1..Len(periods) : results[i].raised}
        vi == validate_interval(interval)
    IN  IF bad # {} THEN results[CHOOSE i \in bad : \A j \in bad : i <= j]
        ELSE IF vi.raised THEN vi
        ELSE Return([periods |-> [i \in 1..Len(periods) |-> results[i].value],
                     interval |-> vi.value])

(***************************************************************************)
(* server.py: view handlers                                                *)
(***************************************************************************)
get_total_volume(st) ==
    [period \in DOMAIN st.stock_data |->
        [dates |-> strftime(Col(st.stock_data[period], "Date")),
         total_volume |-> Col(st.stock_data[period], "Volume")]]

get_buy_sell_volume_mut(st) ==
    [period \in DOMAIN st.stock_data |->
        LET df == st.stock_data[period]
            bs == calculate_buy_sell_volumes(df)
        IN  [dates |-> strftime(Col(df, "Date")),
             buy_volume |-> bs[1],
             sell_volume |-> SubSeq(bs[2], 1, Len(bs[2]) - 1)]]

get_buy_sell_volume(st) ==
    [period \in DOMAIN st.stock_data |->
        LET df == st.stock_data[period]
            bs == calculate_buy_sell_volumes(df)
        IN  [dates |-> strftime(Col(df, "Date")),
             buy_volume |-> bs[1],
             sell_volume |-> bs[2]]]

get_price(st) ==
    [period \in DOMAIN st.stock_data |->
        [dates |-> strftime(Col(st.stock_data[period], "Date")),
         open |-> Col(st.stock_data[period], "Open"),
         high |-> Col(st.stock_data[period], "High"),
         low |-> Col(st.stock_data[period], "Low"),
         close |-> Col(st.stock_data[period], "Close")]]

(***************************************************************************)
(* server.py: StockDataMiddleware.dispatch, one request at a time          *)
(***************************************************************************)
WebIdle ==
    /\ pc = "idle"
    /\ request = NoRequest
    /\ validated_periods = <<>>
    /\ validated_interval = <<>>
    /\ idx = 0
    /\ data = EmptyDict
    /\ fetch_log = <<>>
    /\ state = NoState
    /\ response = NoResponse
    /\ next_called = FALSE

\* a request arrives
Receive ==
    /\ pc = "idle"
    /\ \E p \in Paths, q \in QueryParams :
           request' = [path |-> p, query_params |-> q]
    /\ pc' = "dispatch"
    /\ UNCHANGED <<validated_periods, validated_interval, idx, data, fetch_log,
                   state, response, next_called>>

\* lines 47-58, with the except clause of lines 74-75
DispatchBegin ==
    /\ pc = "dispatch"
    /\ LET q == request.query_params IN
       IF ~StartsWithPerformance(request.path)
       THEN /\ pc' = "call_next"
            /\ UNCHANGED <<validated_periods, validated_interval, idx, response>>
       ELSE IF StockMissing(q)
       THEN /\ response' = JSONResponse(400, <<"Stock symbol is missing">>)
            /\ pc' = "done"
            /\ UNCHANGED <<validated_periods, validated_interval, idx>>
       ELSE LET r == ParseAndValidate(q) IN
            IF r.raised
            THEN /\ response' = JSONResponse(400, r.msg)
                 /\ pc' = "done"
                 /\ UNCHANGED <<validated_periods, validated_interval, idx>>
            ELSE /\ validated_periods' = r.value.periods
                 /\ validated_interval' = r.value.interval
                 /\ idx' = 1
                 /\ pc' = "fetch"
                 /\ UNCHANGED response
    /\ UNCHANGED <<request, data, fetch_log, state, next_called>>

\* lines 61-69: get_stock_data returns a series for the next period
FetchReturns ==
    /\ pc = "fetch"
    /\ idx <= Len(validated_periods)
    /\ \E stock_data \in ProviderSeries :
         LET period == validated_periods[idx]
             stock == request.query_params["stock"]
         IN  /\ fetch_log' = Append(fetch_log,
                    [period |-> period, interval |-> validated_interval,
                     ticker |-> stock, raised |-> FALSE, type |-> "",
                     series |-> stock_data])
             /\ IF Empty(stock_data)
                THEN /\ response' = JSONResponse(404,
                            <<"No data available for ">> \o stock
                                \o <<" with period ">> \o period
                                \o <<" and interval ">> \o validated_interval)
                     /\ pc' = "done"
                     /\ UNCHANGED <<data, idx>>
                ELSE /\ data' = DictSet(data, period, stock_data)
                     /\ idx' = idx + 1
                     /\ UNCHANGED <<pc, response>>
    /\ UNCHANGED <<request, validated_periods, validated_interval, state,
                   next_called>>

\* the except clauses build the response but fall through to call_next
FetchRaises_mut ==
    /\ pc = "fetch"
    /\ idx <= Len(validated_periods)
    /\ \E e \in ProviderErrors :
         /\ fetch_log' = Append(fetch_log,
                [period |-> validated_periods[idx],
                 interval |-> validated_interval,
                 ticker |-> request.query_params["stock"],
                 raised |-> TRUE, type |-> e.type, series |-> <<>>])
         /\ response' = IF e.type = "ValueError"
                        THEN JSONResponse(400, e.msg)
                        ELSE JSONResponse(500, <<"An error occurred: ">> \o e.msg)
    /\ pc' = "call_next"
    /\ UNCHANGED <<request, validated_periods, validated_interval, idx, data,
                   state, next_called>>

\* line 62 raising, caught by lines 74-77
FetchRaises ==
    /\ pc = "fetch"
    /\ idx <= Len(validated_periods)
    /\ \E e \in ProviderErrors :
         /\ fetch_log' = Append(fetch_log,
                [period |-> validated_periods[idx],
                 interval |-> validated_interval,
                 ticker |-> request.query_params["stock"],
                 raised |-> TRUE, type |-> e.type, series |-> <<>>])
         /\ response' = IF e.type = "ValueError"
                        THEN JSONResponse(400, e.msg)
                        ELSE JSONResponse(500, <<"An error occurred: ">> \o e.msg)
    /\ pc' = "done"
    /\ UNCHANGED <<request, validated_periods, validated_interval, idx, data,
                   state, next_called>>

\* lines 71-73: the loop is over, populate request.state
Store ==
    /\ pc = "fetch"
    /\ idx > Len(validated_periods)
    /\ state' = [stock_data |-> data,
                 validated_periods |-> validated_periods,
                 validated_interval |-> validated_interval]
    /\ pc' = "call_next"
    /\ UNCHANGED <<request, validated_periods, validated_interval, idx, data,
                   fetch_log, response, next_called>>

\* lines 79-80: call_next runs the route's handler
CallNext ==
    /\ pc = "call_next"
    /\ next_called' = TRUE
    /\ response' =
         [status_code |-> 200,
          content |->
            IF request.path = <<"performance", "total_volume">>
            THEN get_total_volume(state)
            ELSE IF request.path = <<"performance", "buy_sell_volume">>
            THEN get_buy_sell_volume(state)
            ELSE IF request.path = <<"performance", "price">>
            THEN get_price(state)
            ELSE EmptyDict]
    /\ pc' = "done"
    /\ UNCHANGED <<request, validated_periods, validated_interval, idx, data,
                   fetch_log, state>>

\* the response is sent and the per-request context is discarded
Respond ==
    /\ pc = "done"
    /\ pc' = "idle"
    /\ request' = NoRequest
    /\ validated_periods' = <<>>
    /\ validated_interval' = <<>>
    /\ idx' = 0
    /\ data' = EmptyDict
    /\ fetch_log' = <<>>
    /\ state' = NoState
    /\ response' = NoResponse
    /\ next_called' = FALSE

(***************************************************************************)
(* stock_performance.py: the command-line script                           *)
(***************************************************************************)
CliTickers == { <<"XEQT">>, <<"VOO", ".", "US">> }
CliPeriodTokens == { <<"1y">>, <<"3y">>, <<"1yr">> }
CliIntervalTokens == { <<"1d">>, <<"2d">> }
CliOutputDirs == { <<"charts">> }

CliPeriodLists == SeqsUpTo(CliPeriodTokens, MaxCliPeriods) \ { <<>> }

CliOpts ==
    { [k \in K |-> CASE k = "--periods" -> p [] k = "--interval" -> i
                     [] k = "--output" -> o [] k = "--no-output-dir" -> TRUE] :
        K \in SUBSET {"--periods", "--interval", "--output", "--no-output-dir"},
        p \in CliPeriodLists, i \in CliIntervalTokens, o \in CliOutputDirs }

NoArgv == [ticker |-> <<>>, opts |-> EmptyDict]
NoArgs == [ticker |-> <<>>, output |-> <<>>, no_output_dir |-> FALSE,
           periods |-> <<>>, interval |-> <<>>]

\* lines 169-179: argparse and its defaults
parse_args(av) ==
    [ticker |-> av.ticker,
     output |-> Get(av.opts, "--output", <<"./output">>),
     no_output_dir |-> "--no-output-dir" \in DOMAIN av.opts,
     periods |-> Get(av.opts, "--periods", << <<"1y">>, <<"3y">>, <<"5y">> >>),
     interval |-> Get(av.opts, "--interval", <<"1d">>)]

ensure_to_suffix(ticker) ==
    IF \E i \in 1..Len(ticker) : ticker[i] = "." THEN ticker
    ELSE ticker \o <<".TO">>

\* save_plot: the path the figure is written to
save_plot(filename, output_dir) ==
    IF Len(output_dir) > 0 THEN output_dir \o <<"/">> \o filename ELSE filename

\* lines 183-184: validate each period in list order, then the interval
CliValidateArgs(a) ==
    LET results == [i \in 1..Len(a.periods) |-> cli_validate_period(a.periods[i])]
        bad == {i \in 1..Len(a.periods) : results[i].raised}
        vi == cli_validate_interval(a.interval)
    IN  IF bad # {} THEN results[CHOOSE i \in bad : \A j \in bad : i <= j]
        ELSE IF vi.raised THEN vi
        ELSE Return([periods |-> [i \in 1..Len(a.periods) |-> results[i].value],
                     interval |-> vi.value])

CliIdle ==
    /\ cli_pc = "start"
    /\ argv = NoArgv
    /\ args = NoArgs
    /\ cli_periods = <<>>
    /\ cli_interval = <<>>
    /\ cli_idx = 0
    /\ cli_log = <<>>
    /\ main_reached = FALSE
    /\ saved = <<>>
    /\ stderr = <<>>
    /\ exit_code = -1

\* the script is started with a command line; lines 169-179
CliParse ==
    /\ cli_pc = "start"
    /\ \E t \in CliTickers, o \in CliOpts :
         /\ argv' = [ticker |-> t, opts |-> o]
         /\ args' = parse_args([ticker |-> t, opts |-> o])
    /\ cli_pc' = "validate"
    /\ UNCHANGED <<cli_periods, cli_interval, cli_idx, cli_log, main_reached,
                   saved, stderr, exit_code>>

\* lines 181-188 up to the call of main, and line 161
CliValidate ==
    /\ cli_pc = "validate"
    /\ LET r == CliValidateArgs(args) IN
       IF r.raised
       THEN /\ stderr' = <<"Error: ">> \o r.msg
            /\ exit_code' = 1
            /\ cli_pc' = "exit"
            /\ UNCHANGED <<cli_periods, cli_interval, cli_idx, main_reached, args>>
       ELSE /\ cli_periods' = r.value.periods
            /\ cli_interval' = r.value.interval
            /\ args' = [args EXCEPT !.ticker = ensure_to_suffix(args.ticker)]
            /\ main_reached' = TRUE
            /\ cli_idx' = 1
            /\ cli_pc' = "main"
            /\ UNCHANGED <<stderr, exit_code>>
    /\ UNCHANGED <<argv, cli_log, saved>>

\* lines 162-163, plot_price_volume (lines 97-115) with nothing raising
PlotReturns ==
    /\ cli_pc = "main"
    /\ cli_idx <= Len(cli_periods)
    /\ \E df \in ProviderSeries :
         LET period == cli_periods[cli_idx]
             output_dir == IF args.no_output_dir THEN <<>> ELSE args.output
             stem == args.ticker \o <<"_">> \o period \o <<"_">> \o cli_interval
         IN  /\ cli_log' = Append(cli_log,
                    [period |-> period,
                     kind |-> IF Empty(df) THEN "empty" ELSE "data"])
             /\ saved' = IF Empty(df) THEN saved
                         ELSE saved \o
                              <<save_plot(stem \o <<"_price_volume.png">>, output_dir),
                                save_plot(stem \o <<"_buy_sell_volume.png">>, output_dir)>>
    /\ cli_idx' = cli_idx + 1
    /\ UNCHANGED <<cli_pc, argv, args, cli_periods, cli_interval, main_reached,
                   stderr, exit_code>>

\* the fetch (line 99) or a render/save step (lines 106-113) raises; lines 186-191
PlotRaises ==
    /\ cli_pc = "main"
    /\ cli_idx <= Len(cli_periods)
    /\ \E e \in ProviderErrors :
         /\ cli_log' = Append(cli_log,
                [period |-> cli_periods[cli_idx], kind |-> "raised"])
         /\ stderr' = IF e.type = "ValueError" THEN <<"Error: ">> \o e.msg
                      ELSE <<"An unexpected error occurred: ">> \o e.msg
    /\ exit_code' = 1
    /\ cli_pc' = "exit"
    /\ UNCHANGED <<argv, args, cli_periods, cli_interval, cli_idx, main_reached,
                   saved>>

\* lines 164-165: the inception lookup returns, the script ends normally
InceptionReturns ==
    /\ cli_pc = "main"
    /\ cli_idx > Len(cli_periods)
    /\ \E df \in ProviderSeries :
         cli_log' = Append(cli_log,
             [period |-> <<"max">>, kind |-> IF Empty(df) THEN "empty" ELSE "data"])
    /\ exit_code' = 0
    /\ cli_pc' = "exit"
    /\ UNCHANGED <<argv, args, cli_periods, cli_interval, cli_idx, main_reached,
                   saved, stderr>>

\* line 164: the inception lookup raises; lines 186-191
InceptionRaises ==
    /\ cli_pc = "main"
    /\ cli_idx > Len(cli_periods)
    /\ \E e \in ProviderErrors :
         /\ cli_log' = Append(cli_log, [period |-> <<"max">>, kind |-> "raised"])
         /\ stderr' = IF e.type = "ValueError" THEN <<"Error: ">> \o e.msg
                      ELSE <<"An unexpected error occurred: ">> \o e.msg
    /\ exit_code' = 1
    /\ cli_pc' = "exit"
    /\ UNCHANGED <<argv, args, cli_periods, cli_interval, cli_idx, main_reached,
                   saved>>

(***************************************************************************)
(* Applying the pure helpers to drawn inputs                               *)
(***************************************************************************)
TestLexemes ==
    {"1d", "5d", "1mo", "3mo", "6mo", "1y", "2y", "5y", "10y", "ytd", "max",
     "1m", "2m", "5m", "15m", "30m", "60m", "90m", "1h", "1wk",
     "1yr", "2d", "3y", "1Y", "1D"}

TestStrings == SeqsUpTo(TestLexemes, MaxStrLen)

ValIdle == val_in = <<>> /\ val_out = <<>>

\* both files' validators applied to the same string
Validate ==
    /\ val_out = <<>>
    /\ val_out' = <<validate_period(val_in), validate_interval(val_in),
                    cli_validate_period(val_in), cli_validate_interval(val_in)>>
    /\ UNCHANGED val_in

\* OHLCV rows as the provider may return them: low <= high, any close
CalcRows ==
    { [Date |-> Timestamp(2024, 1, 2), Open |-> l, High |-> h, Low |-> l,
       Close |-> c, Volume |-> v] :
        h \in 1..MaxPrice, l \in 1..MaxPrice, c \in 1..MaxPrice,
        v \in 0..MaxVolume }

\* frames of up to MaxCalcRows rows: provider rows with one arbitrary row at
\* any position
CalcInputs ==
    {<<>>} \cup
    UNION { { SubSeq(rest, 1, i) \o <<r>> \o SubSeq(rest, i + 1, Len(rest)) :
                r \in {x \in CalcRows : x.Low <= x.High}, i \in 0..Len(rest) } :
            rest \in SeqsUpTo(ProviderRows, MaxCalcRows - 1) }

CalcIdle == calc_in = <<>> /\ calc_out = <<>>

\* both files' estimators applied to the same frame
Calc ==
    /\ calc_out = <<>>
    /\ calc_out' = <<calculate_buy_sell_volumes(calc_in),
                     cli_calculate_buy_sell_volumes(calc_in)>>
    /\ UNCHANGED calc_in

(***************************************************************************)
(* Specifications                                                          *)
(***************************************************************************)
Init == WebIdle /\ CliIdle /\ ValIdle /\ CalcIdle

Next ==
    \/ (Receive /\ UNCHANGED <<valVars, calcVars, cliVars>>)
    \/ (DispatchBegin /\ UNCHANGED <<valVars, calcVars, cliVars>>)
    \/ (FetchReturns /\ UNCHANGED <<valVars, calcVars, cliVars>>)
    \/ (FetchRaises /\ UNCHANGED <<valVars, calcVars, cliVars>>)
    \/ (Store /\ UNCHANGED <<valVars, calcVars, cliVars>>)
    \/ (CallNext /\ UNCHANGED <<valVars, calcVars, cliVars>>)
    \/ (Respond /\ UNCHANGED <<valVars, calcVars, cliVars>>)

Spec == Init /\ [][Next]_vars

NextCli ==
    \/ (CliParse /\ UNCHANGED <<webVars, valVars, calcVars>>)
    \/ (CliValidate /\ UNCHANGED <<webVars, valVars, calcVars>>)
    \/ (PlotReturns /\ UNCHANGED <<webVars, valVars, calcVars>>)
    \/ (PlotRaises /\ UNCHANGED <<webVars, valVars, calcVars>>)
    \/ (InceptionReturns /\ UNCHANGED <<webVars, valVars, calcVars>>)
    \/ (InceptionRaises /\ UNCHANGED <<webVars, valVars, calcVars>>)

SpecCli == Init /\ [][NextCli]_vars

InitValidate ==
    /\ WebIdle /\ CliIdle /\ CalcIdle
    /\ val_in \in TestStrings
    /\ val_out = <<>>

NextValidate == Validate /\ UNCHANGED <<webVars, calcVars, cliVars>>

SpecValidate == InitValidate /\ [][NextValidate]_vars

InitCalc ==
    /\ WebIdle /\ CliIdle /\ ValIdle
    /\ calc_in \in CalcInputs
    /\ calc_out = <<>>

NextCalc == Calc /\ UNCHANGED <<webVars, valVars, cliVars>>

SpecCalc == InitCalc /\ [][NextCalc]_vars
(***************************************************************************)
(* Properties                                                              *)
(***************************************************************************)
Periods11 ==
    { <<"1d">>, <<"5d">>, <<"1mo">>, <<"3mo">>, <<"6mo">>, <<"1y">>, <<"2y">>,
      <<"5y">>, <<"10y">>, <<"ytd">>, <<"max">> }

Intervals13 ==
    { <<"1m">>, <<"2m">>, <<"5m">>, <<"15m">>, <<"30m">>, <<"60m">>, <<"90m">>,
      <<"1h">>, <<"1d">>, <<"5d">>, <<"1wk">>, <<"1mo">>, <<"3mo">> }

\* the request as the client wrote it
ReqPeriods == Split(Get(request.query_params, "periods", <<"1y">>))
ReqInterval == Get(request.query_params, "interval", <<"1d">>)
ReqStockPresent ==
    "stock" \in DOMAIN request.query_params /\ request.query_params["stock"] # <<>>
ReqUnderPrefix == StartsWithPerformance(request.path)
Dispatched == pc \notin {"idle", "dispatch"}

StartsWith(s, prefix) ==
    Len(s) >= Len(prefix) /\ SubSeq(s, 1, Len(prefix)) = prefix

Prefetched ==
    /\ ReqStockPresent
    /\ \A i \in 1..Len(ReqPeriods) : ReqPeriods[i] \in Periods11
    /\ ReqInterval \in Intervals13
    /\ Len(fetch_log) = Len(ReqPeriods)
    /\ \A i \in 1..Len(fetch_log) :
          /\ fetch_log[i].period = ReqPeriods[i]
          /\ ~fetch_log[i].raised
          /\ fetch_log[i].series # <<>>
    /\ DOMAIN state = {"stock_data", "validated_periods", "validated_interval"}
    /\ \A i \in 1..Len(ReqPeriods) :
          /\ ReqPeriods[i] \in DOMAIN state.stock_data
          /\ state.stock_data[ReqPeriods[i]] # <<>>
    /\ state.validated_interval = ReqInterval

\* C1: under /performance the downstream handler is invoked only after the
\* stock was present, every period and the interval validated and every fetch
\* returned a non-empty series, with request.state holding a non-empty series
\* per requested period and the validated interval; a 400, 404 or 500 response
\* means the handler was never invoked and request.state was never populated.
C1_HandlerOnlyAfterPrefetch ==
    /\ (ReqUnderPrefix /\ (pc = "call_next" \/ next_called)) => Prefetched
    /\ response.status_code \in {400, 404, 500} =>
          (~next_called /\ DOMAIN state = {})

C1_Witness ==
    /\ next_called
    /\ ReqUnderPrefix
    /\ Len(ReqPeriods) = 2
    /\ ReqPeriods[1] # ReqPeriods[2]

\* C2 (as claimed): whenever a fetch raised, whatever the exception type, the
\* response is 500.
C2_FetchFailureIs500 ==
    \A i \in 1..Len(fetch_log) :
        fetch_log[i].raised => response.status_code = 500

\* C3: an empty series is the last fetch of the request; the response is 404,
\* its detail names the ticker, the interval and that period, which is the
\* first period in request order whose series is empty; nothing is fetched
\* after it and the handler is not invoked.
C3_EmptySeriesIs404 ==
    \A i \in 1..Len(fetch_log) :
        (~fetch_log[i].raised /\ fetch_log[i].series = <<>>) =>
            /\ i = Len(fetch_log)
            /\ pc = "done"
            /\ \A j \in 1..(i - 1) :
                  ~fetch_log[j].raised /\ fetch_log[j].series # <<>>
            /\ fetch_log[i].period = ReqPeriods[i]
            /\ response.status_code = 404
            /\ response.content.detail =
                   <<"No data available for ">> \o request.query_params["stock"]
                       \o <<" with period ">> \o ReqPeriods[i]
                       \o <<" and interval ">> \o ReqInterval
            /\ ~next_called

C3_Witness ==
    /\ Len(ReqPeriods) = 2
    /\ Len(fetch_log) = 1
    /\ fetch_log[1].series = <<>>
    /\ ~fetch_log[1].raised
    /\ response.status_code = 404

\* C4: under /performance, a request whose stock parameter is absent or empty
\* is answered 400 {"detail": "Stock symbol is missing"} whatever its periods
\* and interval, with no fetch and no handler call.
C4_MissingStockIs400 ==
    (ReqUnderPrefix /\ ~ReqStockPresent /\ Dispatched) =>
        /\ pc = "done"
        /\ response.status_code = 400
        /\ response.content = [detail |-> <<"Stock symbol is missing">>]
        /\ fetch_log = <<>>
        /\ ~next_called

C4_Witness ==
    /\ ReqUnderPrefix
    /\ "stock" \in DOMAIN request.query_params
    /\ request.query_params["stock"] = <<>>
    /\ \E i \in 1..Len(ReqPeriods) : ReqPeriods[i] \notin Periods11
    /\ ReqInterval \notin Intervals13
    /\ response.status_code = 400

FirstInvalidPeriod ==
    ReqPeriods[CHOOSE i \in 1..Len(ReqPeriods) :
                   /\ ReqPeriods[i] \notin Periods11
                   /\ \A j \in 1..(i - 1) : ReqPeriods[j] \in Periods11]

\* C5: under /performance with a stock, an invalid period or interval is
\* answered 400 with a detail carrying the first invalid period in list order,
\* or the interval when every period is valid, and nothing is fetched.
C5_InvalidArgumentIs400 ==
    (/\ ReqUnderPrefix /\ ReqStockPresent /\ Dispatched
     /\ \/ \E i \in 1..Len(ReqPeriods) : ReqPeriods[i] \notin Periods11
        \/ ReqInterval \notin Intervals13) =>
        /\ pc = "done"
        /\ response.status_code = 400
        /\ IF \E i \in 1..Len(ReqPeriods) : ReqPeriods[i] \notin Periods11
           THEN StartsWith(response.content.detail,
                           <<"Invalid period: ">> \o FirstInvalidPeriod
                               \o <<". Valid periods are: ">>)
           ELSE StartsWith(response.content.detail,
                           <<"Invalid interval: ">> \o ReqInterval
                               \o <<". Valid intervals are: ">>)
        /\ fetch_log = <<>>
        /\ ~next_called

C5_Witness ==
    /\ ReqUnderPrefix /\ ReqStockPresent
    /\ ReqPeriods = << <<"1y">>, <<"1yr">> >>
    /\ ReqInterval = <<"2d">>
    /\ response.status_code = 400

\* the lexemes of a message after its first n, separators dropped
ListedAfter(msg, n) == {msg[i] : i \in (n + 1)..Len(msg)} \ {", "}

Rejects(r, label, tail, value, allowed) ==
    /\ r.raised
    /\ r.type = "ValueError"
    /\ StartsWith(r.msg, <<label>> \o value \o <<tail>>)
    /\ ListedAfter(r.msg, Len(value) + 2) = {t[1] : t \in allowed}

\* C6: validate_period returns its argument unchanged exactly for the 11
\* period tokens and validate_interval exactly for the 13 interval tokens;
\* every other string raises ValueError with the rejected value and the whole
\* allowed set; the two files' copies give the same outcome.
C6_ValidatorsExact ==
    val_out # <<>> =>
        /\ IF val_in \in Periods11
           THEN ~val_out[1].raised /\ val_out[1].value = val_in
           ELSE Rejects(val_out[1], "Invalid period: ",
                        ". Valid periods are: ", val_in, Periods11)
        /\ IF val_in \in Intervals13
           THEN ~val_out[2].raised /\ val_out[2].value = val_in
           ELSE Rejects(val_out[2], "Invalid interval: ",
                        ". Valid intervals are: ", val_in, Intervals13)
        /\ val_out[3] = val_out[1]
        /\ val_out[4] = val_out[2]

C6_Witness ==
    /\ val_in = <<"1Y">>
    /\ val_out # <<>>
    /\ val_out[1].raised
    /\ val_out[4].raised

\* C7 (as claimed): every row with high = low, whatever its close and volume,
\* yields buyVolume = sellVolume = volume / 2.
C7_DegenerateRowEvenSplit ==
    calc_out # <<>> =>
        \A c \in 1..2 : \A i \in 1..Len(calc_in) :
            calc_in[i].High = calc_in[i].Low =>
                /\ calc_out[c][1][i].k = "fin"
                /\ calc_out[c][2][i].k = "fin"
                /\ 2 * calc_out[c][1][i].n = calc_in[i].Volume * calc_out[c][1][i].d
                /\ 2 * calc_out[c][2][i].n = calc_in[i].Volume * calc_out[c][2][i].d

\* C8: every row with high # low yields buyVolume = volume*(close-low)/(high-low)
\* and sellVolume = volume*(high-close)/(high-low), which add up to volume; the
\* output has one pair per input row.
C8_SplitAddsUp ==
    calc_out # <<>> =>
        LET buy == calc_out[1][1]
            sell == calc_out[1][2]
        IN  /\ Len(buy) = Len(calc_in)
            /\ Len(sell) = Len(calc_in)
            /\ \A i \in 1..Len(calc_in) :
                 LET r == calc_in[i] IN
                 r.High # r.Low =>
                    /\ buy[i].k = "fin" /\ sell[i].k = "fin"
                    /\ buy[i].n * (r.High - r.Low)
                           = r.Volume * (r.Close - r.Low) * buy[i].d
                    /\ sell[i].n * (r.High - r.Low)
                           = r.Volume * (r.High - r.Close) * sell[i].d
                    /\ buy[i].n * sell[i].d + sell[i].n * buy[i].d
                           = r.Volume * buy[i].d * sell[i].d

C8_Witness ==
    /\ calc_out # <<>>
    /\ Len(calc_in) = 2
    /\ calc_in[1].High = calc_in[1].Low
    /\ calc_in[2].High = 3 /\ calc_in[2].Low = 1 /\ calc_in[2].Close = 2
    /\ calc_in[2].Volume = 1

LastFetched(p) ==
    fetch_log[CHOOSE i \in 1..Len(fetch_log) :
                  /\ fetch_log[i].period = p
                  /\ \A j \in (i + 1)..Len(fetch_log) : fetch_log[j].period # p]

\* C9: a successful /performance/buy_sell_volume response has exactly the
\* requested periods as keys, and under each key dates, buy_volume and
\* sell_volume are as long as that period's fetched series.
C9_BuySellShape ==
    (/\ next_called
     /\ request.path = <<"performance", "buy_sell_volume">>
     /\ response.status_code = 200) =>
        /\ DOMAIN response.content = {ReqPeriods[i] : i \in 1..Len(ReqPeriods)}
        /\ \A p \in DOMAIN response.content :
              LET n == Len(LastFetched(p).series) IN
              /\ Len(response.content[p].dates) = n
              /\ Len(response.content[p].buy_volume) = n
              /\ Len(response.content[p].sell_volume) = n

C9_Witness ==
    /\ next_called
    /\ request.path = <<"performance", "buy_sell_volume">>
    /\ response.status_code = 200
    /\ ReqPeriods = << <<"1y">>, <<"2y">> >>
    /\ Len(response.content[<<"1y">>].dates) = 1
    /\ Len(response.content[<<"2y">>].sell_volume) = 2

\* C10 (as claimed): a run with only a ticker, in which nothing the script
\* calls raises, reaches main and exits with code 0.
C10_DefaultRunExitsZero ==
    (/\ cli_pc = "exit"
     /\ "--periods" \notin DOMAIN argv.opts
     /\ "--interval" \notin DOMAIN argv.opts
     /\ \A i \in 1..Len(cli_log) : cli_log[i].kind # "raised") =>
        (main_reached /\ exit_code = 0)
====
